---- MODULE Spec2Model ----
(***************************************************************************)
(* Model of scripts/update_installerinfo.py: one run of main(), which      *)
(* fetches a GitHub release, derives the card's fields from the tag and    *)
(* the first asset, and writes one markdown file.                          *)
(*                                                                         *)
(* Python strings are sequences of one-character strings, so that lower(), *)
(* substring tests, endswith(), the regular expressions and the f-string   *)
(* concatenations are computed character by character.                     *)
(***************************************************************************)
EXTENDS Integers, Sequences, FiniteSets, TLC

(***************************************************************************)
(* Bounds of the model.                                                    *)
(***************************************************************************)
\* a tag given to the tag-only functions is the concatenation of at most
\* MaxTagFrags fragments of TagFrags
MaxTagFrags == 2
\* the tag of a release main fetches is the concatenation of at most
\* MaxOsFrags fragments of OsFrags, or a tag of the docstring
MaxOsFrags == 2
\* asset sizes lie within one byte of k * 512 KiB for k in 0..MaxHalfMB
MaxHalfMB == 5

(***************************************************************************)
(* String literals of the source.                                          *)
(***************************************************************************)
S_empty == << >>
S_windows == <<"w","i","n","d","o","w","s">>
S_macos == <<"m","a","c","o","s">>
S_mac == <<"m","a","c">>
S_linux == <<"l","i","n","u","x">>
S_ubuntu == <<"u","b","u","n","t","u">>
S_ubuntu_24 == <<"u","b","u","n","t","u","_","2","4">>
S_ubuntu_22 == <<"u","b","u","n","t","u","_","2","2">>
S_24 == <<"2","4">>
S_22 == <<"2","2">>
S_000 == <<"0",".","0",".","0">>
S_dot0 == <<".","0">>
S_exe == <<".","e","x","e">>
S_msi == <<".","m","s","i">>
S_dmg == <<".","d","m","g">>
S_pkg == <<".","p","k","g">>
S_appimage == <<".","a","p","p","i","m","a","g","e">>
S_deb == <<".","d","e","b">>
S_targz == <<".","t","a","r",".","g","z">>
S_tgz == <<".","t","g","z">>
S_md == <<".","m","d">>
S_MB == <<" ","M","B">>
S_None == <<"N","o","n","e">>
S_apple == <<"a","p","p","l","e">>
S_Windows == <<"W","i","n","d","o","w","s">>
S_Linux == <<"L","i","n","u","x">>
S_macOS == <<"m","a","c","O","S">>
S_Windows_10_11 == <<"W","i","n","d","o","w","s"," ","1","0",","," ","1","1">>
S_Ubuntu_2204 == <<"U","b","u","n","t","u"," ","2","2",".","0","4","+">>
S_macOS_12 == <<"m","a","c","O","S"," ","1","2","+">>
S_plugin == <<"p","l","u","g","i","n">>
S_installer == <<"i","n","s","t","a","l","l","e","r">>
S_ManiVault == <<"M","a","n","i","V","a","u","l","t">>
S_orglink == <<"h","t","t","p","s",":","/","/","w","w","w",".","m","a","n","i","v","a","u","l","t",".","s","t","u","d","i","o">>
S_body == <<" ","r","e","l","e","a","s","e"," ","o","f"," ","M","a","n","i","V","a","u","l","t"," ","S","t","u","d","i","o",".">>
S_installers == <<"_","i","n","s","t","a","l","l","e","r","s">>
S_Generated == <<"G","e","n","e","r","a","t","e","d",":"," ">>
S_noassets == "Release has no assets; cannot create installer card."

(***************************************************************************)
(* Python's str operations.                                                *)
(***************************************************************************)
LowerOf == [A |-> "a", B |-> "b", C |-> "c", D |-> "d", E |-> "e", F |-> "f",
            G |-> "g", H |-> "h", I |-> "i", J |-> "j", K |-> "k", L |-> "l",
            M |-> "m", N |-> "n", O |-> "o", P |-> "p", Q |-> "q", R |-> "r",
            S |-> "s", T |-> "t", U |-> "u", V |-> "v", W |-> "w", X |-> "x",
            Y |-> "y", Z |-> "z"]

\* str.lower()
lower(s) == [i \in 1..Len(s) |-> IF s[i] \in DOMAIN LowerOf THEN LowerOf[s[i]] ELSE s[i]]

\* s[i-1 : j] of Python (1-based here, the end clamped to the string's length)
slice(s, i, j) == SubSeq(s, i, IF j > Len(s) THEN Len(s) ELSE j)

\* needle in hay
Contains(hay, needle) ==
  \E i \in 1..(Len(hay) - Len(needle) + 1) : SubSeq(hay, i, i + Len(needle) - 1) = needle

\* s.endswith(suf)
endswith(s, suf) ==
  /\ Len(s) >= Len(suf)
  /\ SubSeq(s, Len(s) - Len(suf) + 1, Len(s)) = suf

\* s.endswith((suf1, suf2, ...))
endswith_any(s, sufs) == \E suf \in sufs : endswith(s, suf)

\* s.count(c)
count(s, c) == Cardinality({i \in 1..Len(s) : s[i] = c})

\* str(n) for an integer n >= 0
RECURSIVE str_int(_)
str_int(n) ==
  LET d == <<"0","1","2","3","4","5","6","7","8","9">>
  IN IF n < 10 THEN <<d[n + 1]>> ELSE str_int(n \div 10) \o <<d[(n % 10) + 1]>>

(***************************************************************************)
(* The regular expressions of version_from_tag and os_slug_from_tag.       *)
(***************************************************************************)
\* \d
IsDigit(c) == c \in {"0","1","2","3","4","5","6","7","8","9"}

\* [-_\s]
IsSep(c) == c \in {"-", "_", " "}

\* \d+ matched greedily from position i: the position after the last digit
\* of the run starting at i (i itself when s[i] is no digit)
RECURSIVE DigitsEnd(_, _)
DigitsEnd(s, i) ==
  IF i <= Len(s) /\ IsDigit(s[i]) THEN DigitsEnd(s, i + 1) ELSE i

\* \d+\.\d+(?:\.\d+)? anchored at position i: the position after the match,
\* or 0 when there is no match at i
VersionMatchEnd(s, i) ==
  LET j == DigitsEnd(s, i)
      k == DigitsEnd(s, j + 1)
      l == DigitsEnd(s, k + 1)
  IN IF j = i \/ j > Len(s) \/ s[j] # "." \/ k = j + 1 THEN 0
     ELSE IF k <= Len(s) /\ s[k] = "." /\ l > k + 1 THEN l
     ELSE k

\* re.search(r"(\d+\.\d+(?:\.\d+)?)", tag).group(1), leftmost match first;
\* the empty sequence stands for "no match" (a match is never empty)
RECURSIVE re_search_version(_, _)
re_search_version(s, i) ==
  IF i > Len(s) THEN << >>
  ELSE IF VersionMatchEnd(s, i) # 0 THEN SubSeq(s, i, VersionMatchEnd(s, i) - 1)
  ELSE re_search_version(s, i + 1)

\* re.search(r"ubuntu[-_\s]?NN", t) is not None
re_search_ubuntu(t, nn) ==
  \E i \in 1..Len(t) :
    /\ slice(t, i, i + 5) = S_ubuntu
    /\ \/ slice(t, i + 6, i + 7) = nn
       \/ /\ i + 6 <= Len(t)
          /\ IsSep(t[i + 6])
          /\ slice(t, i + 7, i + 8) = nn

(***************************************************************************)
(* The pure functions of the script.                                       *)
(***************************************************************************)
\* mutant: the two-part match is returned without its ".0"
M_version_from_tag_unpadded(tag) ==
  LET v == re_search_version(tag, 1)
  IN IF v = << >> THEN S_000 ELSE v

version_from_tag(tag) ==
  LET v == re_search_version(tag, 1)
  IN IF v = << >> THEN S_000
     ELSE IF count(v, ".") = 2 THEN v ELSE v \o S_dot0

\* mutant: "mac" is tested before "windows"
M_os_slug_from_tag_mac_first(tag) ==
  LET t == lower(tag)
  IN IF re_search_ubuntu(t, S_24) THEN S_ubuntu_24
     ELSE IF re_search_ubuntu(t, S_22) THEN S_ubuntu_22
     ELSE IF Contains(t, S_macos) \/ Contains(t, S_mac) THEN S_macos
     ELSE IF Contains(t, S_windows) THEN S_windows
     ELSE IF Contains(t, S_linux) THEN S_linux
     ELSE S_windows

\* mutant: "windows" is tested before the Ubuntu patterns
M_os_slug_from_tag_windows_first(tag) ==
  LET t == lower(tag)
  IN IF Contains(t, S_windows) THEN S_windows
     ELSE IF re_search_ubuntu(t, S_24) THEN S_ubuntu_24
     ELSE IF re_search_ubuntu(t, S_22) THEN S_ubuntu_22
     ELSE IF Contains(t, S_macos) \/ Contains(t, S_mac) THEN S_macos
     ELSE IF Contains(t, S_linux) THEN S_linux
     ELSE S_windows

os_slug_from_tag(tag) ==
  LET t == lower(tag)
  IN IF re_search_ubuntu(t, S_24) THEN S_ubuntu_24
     ELSE IF re_search_ubuntu(t, S_22) THEN S_ubuntu_22
     ELSE IF Contains(t, S_windows) THEN S_windows
     ELSE IF Contains(t, S_macos) \/ Contains(t, S_mac) THEN S_macos
     ELSE IF Contains(t, S_linux) THEN S_linux
     ELSE S_windows

\* mutant: ".dmg" is missing from the macOS extensions
M_infer_os_without_dmg(tag, asset_name) ==
  LET hay == lower(tag) \o <<" ">> \o lower(asset_name)
      a == lower(asset_name)
  IN IF Contains(hay, S_windows) \/ endswith_any(a, {S_exe, S_msi}) THEN S_windows
     ELSE IF Contains(hay, S_macos) \/ Contains(hay, S_mac)
             \/ endswith_any(a, {S_pkg}) THEN S_mac
     ELSE IF Contains(hay, S_linux) \/ Contains(hay, S_ubuntu)
             \/ endswith_any(a, {S_appimage, S_deb, S_targz, S_tgz}) THEN S_linux
     ELSE S_windows

\* mutant: the macOS branch returns the filename slug "macos", no table key
M_infer_os_returns_macos(tag, asset_name) ==
  LET hay == lower(tag) \o <<" ">> \o lower(asset_name)
      a == lower(asset_name)
  IN IF Contains(hay, S_windows) \/ endswith_any(a, {S_exe, S_msi}) THEN S_windows
     ELSE IF Contains(hay, S_macos) \/ Contains(hay, S_mac)
             \/ endswith_any(a, {S_dmg, S_pkg}) THEN S_macos
     ELSE IF Contains(hay, S_linux) \/ Contains(hay, S_ubuntu)
             \/ endswith_any(a, {S_appimage, S_deb, S_targz, S_tgz}) THEN S_linux
     ELSE S_windows

infer_os_for_frontmatter(tag, asset_name) ==
  LET hay == lower(tag) \o <<" ">> \o lower(asset_name)
      a == lower(asset_name)
  IN IF Contains(hay, S_windows) \/ endswith_any(a, {S_exe, S_msi}) THEN S_windows
     ELSE IF Contains(hay, S_macos) \/ Contains(hay, S_mac)
             \/ endswith_any(a, {S_dmg, S_pkg}) THEN S_mac
     ELSE IF Contains(hay, S_linux) \/ Contains(hay, S_ubuntu)
             \/ endswith_any(a, {S_appimage, S_deb, S_targz, S_tgz}) THEN S_linux
     ELSE S_windows

\* the table of os_meta: key -> (name, short, compat, key, order, icon)
os_meta_table ==
  (S_windows :> <<S_Windows, S_Windows, S_Windows_10_11, S_windows, 1, S_windows>>)
  @@ (S_linux :> <<S_Linux, S_Linux, S_Ubuntu_2204, S_linux, 2, S_linux>>)
  @@ (S_mac :> <<S_macOS, S_macOS, S_macOS_12, S_mac, 3, S_apple>>)

\* mutant: an exact half is rounded up
M_py_round_half_up(num, den) == (2 * num + den) \div (2 * den)

\* round(x) of Python 3 for x = num / den >= 0: to the nearest integer, an
\* exact half to the even neighbour
py_round(num, den) ==
  LET q == num \div den
      r == num % den
  IN IF 2 * r < den THEN q
     ELSE IF 2 * r > den THEN q + 1
     ELSE IF q % 2 = 0 THEN q ELSE q + 1

\* size_mb(nbytes) for an int nbytes (None and 0 are the caller's "or 0")
size_mb(nbytes) == str_int(py_round(nbytes, 1024 * 1024)) \o S_MB

(***************************************************************************)
(* Python and JSON values.  A value of an optional key is a record whose   *)
(* field k tells what is there: "absent" (the key is missing), "none"      *)
(* (JSON null, Python None) or the kind of the value.                      *)
(***************************************************************************)
PyStr(s) == [k |-> "str", s |-> s]
PyNone == [k |-> "none", s |-> << >>]
Absent == [k |-> "absent", s |-> << >>]

PyInt(n) == [k |-> "int", n |-> n]
IntNone == [k |-> "none", n |-> 0]
IntAbsent == [k |-> "absent", n |-> 0]
\* a non-empty string where a number is expected
IntStr == [k |-> "str", n |-> 0]

\* an ISO-8601 timestamp: day number, time of day and UTC offset in hours
NoTime == [day |-> 0, h |-> 0, mi |-> 0, s |-> 0, off |-> 0]
Iso(day, h, mi, s, off) ==
  [k |-> "iso", t |-> [day |-> day, h |-> h, mi |-> mi, s |-> s, off |-> off]]
DateAbsent == [k |-> "absent", t |-> NoTime]
DateNone == [k |-> "none", t |-> NoTime]
\* the empty string
DateEmpty == [k |-> "empty", t |-> NoTime]
\* a non-empty string that datetime.fromisoformat rejects
DateBad == [k |-> "bad", t |-> NoTime]

\* d.get(key, default)
get(v, default) == IF v.k = "absent" THEN default ELSE v

\* str(x) as an f-string replacement field renders it
format(v) == IF v.k = "none" THEN S_None ELSE v.s

\* fmt_date(iso) for a well-formed timestamp: converted to UTC; the record
\* stands for the text "YYYY-MM-DD HH:MM:SS" that strftime makes of it
fmt_date(t) ==
  LET hh == t.h - t.off
  IN IF hh < 0 THEN [day |-> t.day - 1, h |-> hh + 24, mi |-> t.mi, s |-> t.s]
     ELSE IF hh >= 24 THEN [day |-> t.day + 1, h |-> hh - 24, mi |-> t.mi, s |-> t.s]
     ELSE [day |-> t.day, h |-> hh, mi |-> t.mi, s |-> t.s]

\* render_md: the front matter as key -> rendered text, and the body line
render_md(name, short, compat, key, order, icon, version, date_str, size_str, url) ==
  [layout |-> S_plugin,
   name |-> <<"\"">> \o name \o <<"\"">>,
   shortname |-> <<"\"">> \o short \o <<"\"">>,
   compatibility |-> <<"\"">> \o compat \o <<"\"">>,
   key |-> key,
   type |-> S_installer,
   image |-> S_empty,
   version |-> version,
   date |-> date_str,
   order |-> str_int(order),
   icon |-> icon,
   size |-> size_str,
   organization |-> S_ManiVault,
   organization_link |-> S_orglink,
   download_link |-> format(url),
   body |-> version \o S_body]

(***************************************************************************)
(* The releases the GitHub API may answer with.                            *)
(***************************************************************************)
\* fragments that spell operating systems
OsFrags ==
  { <<"U","b","u","n","t","u">>, <<"-","2","4">>, <<"U","b","u","n","t","u","-","2","4">>,
    <<"U","b","u","n","t","u","2","2">>, <<"W","i","n","d","o","w","s">>, <<"m","a","c","O","S">>,
    <<"L","i","n","u","x">> }

\* more fragments for the Ubuntu patterns and the "mac" test
SlugFrags == { <<"_","2","2">>, <<"2","4">>, <<"M","a","c">> }

\* fragments that spell version numbers
VersionFrags == { <<"1",".","3">>, <<".","0">>, <<"2">> }

TagFrags == OsFrags \cup SlugFrags \cup VersionFrags

\* the tags of the module docstring's examples
DocTag_ubuntu24 == <<"M","a","n","i","V","a","u","l","t","-","1",".","3",".","0","-","U","b","u","n","t","u","-","2","4">>
DocTag_ubuntu22 == <<"M","a","n","i","V","a","u","l","t","-","1",".","1",".","0","-","U","b","u","n","t","u","-","2","2">>
DocTag_windows == <<"M","a","n","i","V","a","u","l","t","_","1",".","3","_","o","n","l","i","n","e","_","W","i","n","d","o","w","s">>
DocTags == {DocTag_ubuntu24, DocTag_ubuntu22, DocTag_windows}

\* concatenations of at most n fragments
RECURSIVE Concats(_, _)
Concats(frags, n) ==
  IF n = 0 THEN {<< >>}
  ELSE LET T == Concats(frags, n - 1) IN T \cup {t \o f : t \in T, f \in frags}

\* the tags the tag-only functions are applied to
Tags == Concats(TagFrags, MaxTagFrags) \cup DocTags

\* the tags of the releases main is run on
OsTags == Concats(OsFrags, MaxOsFrags) \cup DocTags

AssetNames ==
  { <<"m","v",".","d","m","g">>, <<"M","V",".","D","M","G">>, <<"m","v",".","e","x","e">>, <<"m","v",".","m","s","i">>,
    <<"m","v",".","p","k","g">>, <<"m","v",".","A","p","p","I","m","a","g","e">>, <<"m","v",".","d","e","b">>,
    <<"m","v",".","t","a","r",".","g","z">>, <<"m","v",".","t","g","z">>, <<"m","v",".","z","i","p">>,
    <<>>, <<"W","i","n","d","o","w","s",".","d","m","g">>, <<"u","b","u","n","t","u",".","z","i","p">> }

Url_a == <<"h","t","t","p","s",":","/","/","h","/","a">>
Url_b == <<"h","t","t","p","s",":","/","/","h","/","b">>

HalfMB == 512 * 1024
Sizes == {n \in {k * HalfMB + d : k \in 0..MaxHalfMB, d \in {-1, 0, 1}} : n >= 0}

Time_utc == Iso(19844, 10, 30, 0, 0)
Time_east == Iso(19844, 1, 15, 0, 2)
Time_west == Iso(19844, 23, 15, 0, -5)

Asset(name, size, url) == [name |-> name, size |-> size, browser_download_url |-> url]
Release(tag, assets, published, created) ==
  [tag_name |-> tag, assets |-> assets, published_at |-> published, created_at |-> created]

\* the "assets" key: missing, null, or a list of assets
AssetsAbsent == [k |-> "absent", list |-> << >>]
AssetsNone == [k |-> "none", list |-> << >>]
AssetsList(l) == [k |-> "list", list |-> l]

OtherAsset == Asset(PyStr(<<"m","v","-","l","i","n","u","x",".","d","e","b">>), PyInt(HalfMB), PyStr(Url_b))

\* every tag with every asset name, the other fields well-formed
NamedReleases ==
  { Release(PyStr(t), AssetsList(<<Asset(PyStr(a), PyInt(3 * HalfMB), PyStr(Url_a))>>),
            Time_utc, Time_utc) : t \in OsTags, a \in AssetNames }

\* every size, with one and with two assets
SizedReleases ==
  { Release(PyStr(DocTag_windows), AssetsList(l), Time_east, DateAbsent) :
      l \in UNION { {<<Asset(PyStr(S_empty), PyInt(n), PyStr(u))>>,
                     <<Asset(PyStr(S_empty), PyInt(n), PyStr(u)), OtherAsset>>} :
                    n \in Sizes, u \in {Url_a, Url_b} } }

\* every way a field can be missing, null or malformed
FieldReleases ==
  { Release(t, AssetsList(<<Asset(a, n, u)>>), p, c) :
      t \in {Absent, PyNone, PyStr(DocTag_ubuntu24)},
      a \in {Absent, PyNone, PyStr(S_empty)},
      n \in {IntAbsent, IntNone, IntStr, PyInt(0), PyInt(3 * HalfMB)},
      u \in {Absent, PyNone, PyStr(Url_a)},
      p \in {DateAbsent, DateNone, DateEmpty, DateBad, Time_west},
      c \in {DateAbsent, DateNone, DateBad, Time_utc} }

\* no asset to make a card of
EmptyReleases ==
  { Release(t, l, Time_utc, Time_utc) :
      t \in {Absent, PyStr(DocTag_ubuntu22)},
      l \in {AssetsAbsent, AssetsNone, AssetsList(<< >>)} }

Releases == NamedReleases \cup SizedReleases \cup FieldReleases \cup EmptyReleases

(***************************************************************************)
(* The run of main().                                                      *)
(***************************************************************************)
VARIABLES
  pc,                   \* position in main
  RELEASE_TAG,          \* the environment variable
  requests,             \* the HTTP requests sent, in order
  rel,                  \* the release JSON main got
  aname, tag,           \* locals of main
  version_for_filename, os_slug, os_key, date_str, size_str, url, md, path,
  dirs,                 \* the directories that exist
  files,                \* the file system: path -> content
  mkdirs,               \* how many times main has called os.makedirs
  writes,               \* how many times main has written a file
  stdout,               \* the lines printed
  stderr,               \* the message the process died with, "" when none
  exit_code             \* -1 while running, then the exit status

vars == <<pc, RELEASE_TAG, requests, rel, aname, tag, version_for_filename, os_slug,
          os_key, date_str, size_str, url, md, path, dirs, files, mkdirs, writes,
          stdout, stderr, exit_code>>

locals == <<aname, tag, version_for_filename, os_slug, os_key, date_str, size_str,
            url, md, path>>

DEST_DIR == S_installers

NoRelease == Release(Absent, AssetsAbsent, DateAbsent, DateAbsent)
NoDate == [day |-> 0, h |-> 0, mi |-> 0, s |-> 0]
NoMd == render_md(S_empty, S_empty, S_empty, S_empty, 0, S_empty, S_empty, NoDate,
                  S_empty, PyNone)

\* the file systems main may start on: no DEST_DIR; an empty DEST_DIR; a
\* DEST_DIR that holds the card an earlier run made of the same tag
NoFiles == [p \in {} |-> NoMd]
OldPath == DEST_DIR \o <<"/", "1", ".", "3", ".", "0", "_">> \o S_windows \o S_md
OldMd == render_md(S_Windows, S_Windows, S_Windows_10_11, S_windows, 1, S_windows,
                   <<"1", ".", "3", ".", "0">>, NoDate, <<"1", " ", "M", "B">>, PyStr(Url_b))
OldFiles == [p \in {OldPath} |-> OldMd]
Disks == {<<{}, NoFiles>>, <<{DEST_DIR}, NoFiles>>, <<{DEST_DIR}, OldFiles>>}

\* get_release: the URL requested
release_url(env_tag) == IF env_tag.k = "str" /\ env_tag.s # << >> THEN "tags" ELSE "latest"

\* assets = rel.get("assets") or []
assets_of(r) == IF r.assets.k = "list" THEN r.assets.list ELSE << >>

\* os.getenv("RELEASE_TAG") is unset, empty, or names a tag
Init ==
  /\ pc = "start"
  /\ RELEASE_TAG \in {PyNone, PyStr(S_empty), PyStr(DocTag_windows)}
  /\ requests = << >>
  /\ rel = NoRelease
  /\ aname = PyNone
  /\ tag = PyNone
  /\ version_for_filename = S_empty
  /\ os_slug = S_empty
  /\ os_key = S_empty
  /\ date_str = NoDate
  /\ size_str = S_empty
  /\ url = PyNone
  /\ md = NoMd
  /\ path = S_empty
  /\ \E d \in Disks : dirs = d[1] /\ files = d[2]
  /\ mkdirs = 0
  /\ writes = 0
  /\ stdout = << >>
  /\ stderr = ""
  /\ exit_code = -1

\* mutant: the process ends with status 0
M_Die_exit_zero(message) ==
  /\ pc' = "exited"
  /\ stderr' = message
  /\ exit_code' = 0

\* an exception or SystemExit(message) leaves main: the process ends, status 1
Die(message) ==
  /\ pc' = "exited"
  /\ stderr' = message
  /\ exit_code' = 1

\* get_release answers: requests.get succeeded, the status is no error
GetRelease ==
  /\ pc = "start"
  /\ \E r \in Releases :
       /\ rel' = r
       /\ requests' = Append(requests, release_url(RELEASE_TAG))
       /\ pc' = "fetched"
  /\ UNCHANGED <<RELEASE_TAG, locals, dirs, files, mkdirs, writes, stdout, stderr, exit_code>>

\* mutant: a failed request is tried again
M_GetReleaseFails_retry ==
  /\ pc = "start"
  /\ requests' = Append(requests, release_url(RELEASE_TAG))
  /\ UNCHANGED <<pc, RELEASE_TAG, rel, locals, dirs, files, mkdirs, writes, stdout,
                 stderr, exit_code>>

\* requests.get raises, or raise_for_status raises on a 4xx/5xx answer
GetReleaseFails ==
  /\ pc = "start"
  /\ requests' = Append(requests, release_url(RELEASE_TAG))
  /\ \E e \in {"ConnectionError", "Timeout", "HTTPError"} : Die(e)
  /\ UNCHANGED <<RELEASE_TAG, rel, locals, dirs, files, mkdirs, writes, stdout>>

\* if not assets: raise SystemExit(...)
NoAssets ==
  /\ pc = "fetched"
  /\ assets_of(rel) = << >>
  /\ Die(S_noassets)
  /\ UNCHANGED <<RELEASE_TAG, requests, rel, locals, dirs, files, mkdirs, writes, stdout>>

\* mutant: a0 is the last asset
M_main_a0_last(r) == assets_of(r)[Len(assets_of(r))]

\* the locals of main, lines 133-148, as far as they can be computed
main_a0(r) == assets_of(r)[1]
main_aname(r) == get(main_a0(r).name, PyStr(S_empty))
main_tag(r) == get(r.tag_name, PyStr(S_empty))
main_os_key(r) == infer_os_for_frontmatter(main_tag(r).s, main_aname(r).s)
\* rel.get("published_at") or rel.get("created_at")
main_date_arg(r) ==
  IF r.published_at.k \in {"iso", "bad"} THEN r.published_at
  ELSE get(r.created_at, DateNone)
\* a0.get("size", 0), then "nbytes or 0" in size_mb
main_size(r) ==
  LET n == get(main_a0(r).size, PyInt(0))
  IN IF n.k = "none" THEN PyInt(0) ELSE n
\* a0.get("browser_download_url")
main_url(r) == get(main_a0(r).browser_download_url, PyNone)

\* the exception lines 133-148 raise on release r, "" when they raise none
DeriveError(r) ==
  IF main_tag(r).k = "none" THEN "TypeError"
  ELSE IF main_aname(r).k = "none" THEN "AttributeError"
  ELSE IF main_os_key(r) \notin DOMAIN os_meta_table THEN "KeyError"
  ELSE IF main_date_arg(r).k = "none" THEN "AttributeError"
  ELSE IF main_date_arg(r).k \in {"empty", "bad"} THEN "ValueError"
  ELSE IF main_size(r).k = "str" THEN "TypeError"
  ELSE ""

\* os_meta(os_key)
os_meta(key) == os_meta_table[key]

\* lines 133-156: every field derived, the card rendered, the path built
Derive ==
  /\ pc = "fetched"
  /\ assets_of(rel) # << >>
  /\ DeriveError(rel) = ""
  /\ aname' = main_aname(rel)
  /\ tag' = main_tag(rel)
  /\ version_for_filename' = version_from_tag(main_tag(rel).s)
  /\ os_slug' = os_slug_from_tag(main_tag(rel).s)
  /\ os_key' = main_os_key(rel)
  /\ date_str' = fmt_date(main_date_arg(rel).t)
  /\ size_str' = size_mb(main_size(rel).n)
  /\ url' = main_url(rel)
  /\ LET m == os_meta(os_key')
     IN md' = render_md(m[1], m[2], m[3], m[4], m[5], m[6], version_for_filename',
                        date_str', size_str', url')
  /\ path' = DEST_DIR \o <<"/">> \o version_for_filename' \o <<"_">> \o os_slug' \o S_md
  /\ pc' = "rendered"
  /\ UNCHANGED <<RELEASE_TAG, requests, rel, dirs, files, mkdirs, writes, stdout, stderr, exit_code>>

\* one of lines 133-148 raises
DeriveFails ==
  /\ pc = "fetched"
  /\ assets_of(rel) # << >>
  /\ DeriveError(rel) # ""
  /\ Die(DeriveError(rel))
  /\ UNCHANGED <<RELEASE_TAG, requests, rel, locals, dirs, files, mkdirs, writes, stdout>>

\* os.makedirs(DEST_DIR, exist_ok=True)
MakeDirs ==
  /\ pc = "rendered"
  /\ dirs' = dirs \cup {DEST_DIR}
  /\ mkdirs' = mkdirs + 1
  /\ pc' = "dir_ready"
  /\ UNCHANGED <<RELEASE_TAG, requests, rel, locals, files, writes, stdout, stderr, exit_code>>

\* with open(path, "w") as f: f.write(md)
WriteFile ==
  /\ pc = "dir_ready"
  /\ files' = [p \in DOMAIN files \cup {path} |-> IF p = path THEN md ELSE files[p]]
  /\ writes' = writes + 1
  /\ pc' = "written"
  /\ UNCHANGED <<RELEASE_TAG, requests, rel, locals, dirs, mkdirs, stdout, stderr, exit_code>>

\* print(f"Generated: {path}"), and main returns
PrintGenerated ==
  /\ pc = "written"
  /\ stdout' = Append(stdout, S_Generated \o path)
  /\ pc' = "exited"
  /\ exit_code' = 0
  /\ UNCHANGED <<RELEASE_TAG, requests, rel, locals, dirs, files, mkdirs, writes, stderr>>

Next ==
  \/ GetRelease
  \/ GetReleaseFails
  \/ NoAssets
  \/ Derive
  \/ DeriveFails
  \/ MakeDirs
  \/ WriteFile
  \/ PrintGenerated

Spec == Init /\ [][Next]_vars

(***************************************************************************)
(* The tag-only functions applied to a tag, outside a run of main.         *)
(***************************************************************************)
InitTag ==
  /\ pc = "call"
  /\ tag \in {PyStr(t) : t \in Tags}
  /\ RELEASE_TAG = PyNone
  /\ requests = << >>
  /\ rel = NoRelease
  /\ aname = PyNone
  /\ version_for_filename = S_empty
  /\ os_slug = S_empty
  /\ os_key = S_empty
  /\ date_str = NoDate
  /\ size_str = S_empty
  /\ url = PyNone
  /\ md = NoMd
  /\ path = S_empty
  /\ dirs = {}
  /\ files = NoFiles
  /\ mkdirs = 0
  /\ writes = 0
  /\ stdout = << >>
  /\ stderr = ""
  /\ exit_code = -1

\* version_for_filename = version_from_tag(tag)
CallVersionFromTag ==
  /\ pc = "call"
  /\ version_for_filename = S_empty
  /\ version_for_filename' = version_from_tag(tag.s)
  /\ UNCHANGED <<pc, RELEASE_TAG, requests, rel, aname, tag, os_slug, os_key, date_str,
                 size_str, url, md, path, dirs, files, mkdirs, writes, stdout, stderr,
                 exit_code>>

\* os_slug = os_slug_from_tag(tag)
CallOsSlugFromTag ==
  /\ pc = "call"
  /\ os_slug = S_empty
  /\ os_slug' = os_slug_from_tag(tag.s)
  /\ UNCHANGED <<pc, RELEASE_TAG, requests, rel, aname, tag, version_for_filename, os_key,
                 date_str, size_str, url, md, path, dirs, files, mkdirs, writes, stdout,
                 stderr, exit_code>>

NextTag ==
  \/ CallVersionFromTag
  \/ CallOsSlugFromTag

SpecTag == InitTag /\ [][NextTag]_vars

(***************************************************************************)
(* Properties of version_from_tag (checked under SpecTag).                 *)
(***************************************************************************)
\* s is n non-empty groups of digits joined by single dots
IsDotted(s, n) ==
  /\ Len(s) > 0
  /\ \A i \in 1..Len(s) : IsDigit(s[i]) \/ s[i] = "."
  /\ IsDigit(s[1]) /\ IsDigit(s[Len(s)])
  /\ \A i \in 1..(Len(s) - 1) : ~(s[i] = "." /\ s[i + 1] = ".")
  /\ Cardinality({i \in 1..Len(s) : s[i] = "."}) = n - 1

\* the substrings of t that are two-part or three-part dotted numbers, as
\* pairs <<first position, last position>>
DottedIn(t) ==
  {ij \in (1..Len(t)) \X (1..Len(t)) :
     /\ ij[1] < ij[2]
     /\ IsDigit(t[ij[1]]) /\ IsDigit(t[ij[2]])
     /\ LET m == SubSeq(t, ij[1], ij[2]) IN IsDotted(m, 2) \/ IsDotted(m, 3)}

\* the first such match: it starts leftmost and, from there, reaches farthest
FirstDotted(t) ==
  LET D == DottedIn(t)
      i == CHOOSE i \in {ij[1] : ij \in D} : \A ij \in D : i <= ij[1]
      j == CHOOSE j \in {ij[2] : ij \in {d \in D : d[1] = i}} :
             \A ij \in D : ij[1] = i => ij[2] <= j
  IN SubSeq(t, i, j)

version_called == pc = "call" /\ version_for_filename # S_empty

\* C2: for a tag that contains a two-part or three-part dotted number,
\* version_from_tag returns exactly three dot-separated digit groups: the
\* first match unchanged if it has three parts, with ".0" appended if it has
\* two; for a tag without one it returns "0.0.0".
C2_version_normalized ==
  version_called =>
    IF DottedIn(tag.s) = {}
    THEN version_for_filename = <<"0", ".", "0", ".", "0">>
    ELSE /\ IsDotted(version_for_filename, 3)
         /\ LET m == FirstDotted(tag.s)
            IN version_for_filename = IF IsDotted(m, 3) THEN m ELSE m \o <<".", "0">>

\* a two-part number found inside a longer tag got its ".0"
C2_witness ==
  /\ version_called
  /\ DottedIn(tag.s) # {}
  /\ IsDotted(FirstDotted(tag.s), 2)
  /\ Len(tag.s) > Len(FirstDotted(tag.s))
  /\ version_for_filename = FirstDotted(tag.s) \o <<".", "0">>

(***************************************************************************)
(* Properties of os_slug_from_tag (checked under SpecTag).                 *)
(***************************************************************************)
\* t holds "ubuntu", then at most one of '-', '_' and ' ', then nn
UbuntuBefore(t, nn) ==
  \E sep \in {<< >>, <<"-">>, <<"_">>, <<" ">>} :
    Contains(t, <<"u", "b", "u", "n", "t", "u">> \o sep \o nn)

slug_called == pc = "call" /\ os_slug # S_empty

\* C3: os_slug_from_tag ignores case and tests in a fixed order: Ubuntu 24,
\* then Ubuntu 22, then "windows", "mac"/"macos", "linux"; a tag matching an
\* Ubuntu pattern never yields "linux", "windows" or "macos".
C3_slug_order ==
  slug_called =>
    LET t == lower(tag.s)
        u24 == UbuntuBefore(t, <<"2", "4">>)
        u22 == UbuntuBefore(t, <<"2", "2">>)
        win == Contains(t, <<"w", "i", "n", "d", "o", "w", "s">>)
        mac == Contains(t, <<"m", "a", "c">>)
        lin == Contains(t, <<"l", "i", "n", "u", "x">>)
    IN /\ u24 => os_slug = <<"u", "b", "u", "n", "t", "u", "_", "2", "4">>
       /\ ~u24 /\ u22 => os_slug = <<"u", "b", "u", "n", "t", "u", "_", "2", "2">>
       /\ ~u24 /\ ~u22 /\ win => os_slug = <<"w", "i", "n", "d", "o", "w", "s">>
       /\ ~u24 /\ ~u22 /\ ~win /\ mac => os_slug = <<"m", "a", "c", "o", "s">>
       /\ ~u24 /\ ~u22 /\ ~win /\ ~mac /\ lin => os_slug = <<"l", "i", "n", "u", "x">>
       /\ u24 \/ u22 =>
            os_slug \notin {<<"l", "i", "n", "u", "x">>, <<"w", "i", "n", "d", "o", "w", "s">>,
                            <<"m", "a", "c", "o", "s">>}

\* a mixed-case tag that names Windows and Ubuntu 22 got the Ubuntu slug
C3_witness ==
  /\ slug_called
  /\ Contains(tag.s, <<"W", "i", "n", "d", "o", "w", "s">>)
  /\ Contains(tag.s, <<"U", "b", "u", "n", "t", "u", "2", "2">>)
  /\ os_slug = <<"u", "b", "u", "n", "t", "u", "_", "2", "2">>

(***************************************************************************)
(* Properties of infer_os_for_frontmatter and os_meta (checked under Spec, *)
(* on the values main derived).                                            *)
(***************************************************************************)
W_windows == <<"w", "i", "n", "d", "o", "w", "s">>
W_linux == <<"l", "i", "n", "u", "x">>
W_mac == <<"m", "a", "c">>
W_ubuntu == <<"u", "b", "u", "n", "t", "u">>
Ext_dmg == <<".", "d", "m", "g">>

\* main has derived every field of the card
derived == pc = "rendered"

dmg_asset == derived /\ endswith(lower(aname.s), Ext_dmg)

\* C1 as stated: an asset name ending in ".dmg" gives "mac" for every tag
C1_dmg_always_mac == dmg_asset => os_key = W_mac

\* C1, amended: an asset name ending in ".dmg" (in any case) gives "mac"
\* whatever other OS words the tag holds, unless the tag or the asset name
\* contains "windows" (in any case), and then it gives "windows".
C1_dmg_mac_unless_windows ==
  dmg_asset =>
    IF Contains(lower(tag.s), W_windows) \/ Contains(lower(aname.s), W_windows)
    THEN os_key = W_windows
    ELSE os_key = W_mac

\* a ".dmg" asset of a release whose tag names Ubuntu 24 is classified "mac"
C1_witness ==
  /\ dmg_asset
  /\ Contains(lower(tag.s), W_ubuntu) /\ Contains(tag.s, <<"2", "4">>)
  /\ os_key = W_mac

\* C9: infer_os_for_frontmatter returns "windows", "linux" or "mac", each a
\* key of the os_meta table, so the lookup in main never fails and yields six
\* fields with order 1, 2 or 3 respectively.
C9_os_key_in_table ==
  /\ stderr # "KeyError"
  /\ derived =>
       /\ os_key \in {W_windows, W_linux, W_mac}
       /\ os_key \in DOMAIN os_meta_table
       /\ Len(os_meta(os_key)) = 6
       /\ os_meta(os_key)[5] = (IF os_key = W_windows THEN 1
                                ELSE IF os_key = W_linux THEN 2 ELSE 3)
       /\ md.order = (IF os_key = W_windows THEN <<"1">>
                      ELSE IF os_key = W_linux THEN <<"2">> ELSE <<"3">>)
       /\ md.key = os_key

\* the "mac" row of the table was looked up
C9_witness ==
  /\ derived
  /\ os_key = W_mac
  /\ md.order = <<"3">>
  /\ md.icon = <<"a", "p", "p", "l", "e">>

\* the operating-system family of a filename slug
Family(slug) ==
  IF slug \in {<<"u", "b", "u", "n", "t", "u", "_", "2", "4">>,
               <<"u", "b", "u", "n", "t", "u", "_", "2", "2">>, W_linux} THEN W_linux
  ELSE IF slug = <<"m", "a", "c", "o", "s">> THEN W_mac
  ELSE slug

NoHint(a) ==
  /\ \A w \in {W_windows, W_mac, W_linux, W_ubuntu} : ~Contains(a, w)
  /\ \A e \in {<<".", "e", "x", "e">>, <<".", "m", "s", "i">>, Ext_dmg,
               <<".", "p", "k", "g">>, <<".", "a", "p", "p", "i", "m", "a", "g", "e">>,
               <<".", "d", "e", "b">>, <<".", "t", "a", "r", ".", "g", "z">>,
               <<".", "t", "g", "z">>} : ~endswith(a, e)

MiB == 1024 * 1024

\* the byte count of the first asset; 0 when the size is null or missing
first_size ==
  LET sz == rel.assets.list[1].size IN IF sz.k = "int" THEN sz.n ELSE 0

Abs(x) == IF x < 0 THEN -x ELSE x

\* C4 as stated: n / 1048576 rounded to the nearest whole number, an exact
\* half rounded up
C4_size_half_up ==
  derived => size_str = str_int((2 * first_size + MiB) \div (2 * MiB)) \o <<" ", "M", "B">>

\* C4, amended: size_mb(n) is "<k> MB" with k the whole number nearest to
\* n / 1048576, an exact half going to the even neighbour (524288 -> "0 MB",
\* 1572864 -> "2 MB", 2621440 -> "2 MB"); 0, None or a missing size give
\* "0 MB".
C4_size_half_even ==
  derived =>
    \E k \in 0..(first_size \div MiB + 1) :
      /\ size_str = str_int(k) \o <<" ", "M", "B">>
      /\ 2 * Abs(first_size - k * MiB) <= MiB
      /\ 2 * Abs(first_size - k * MiB) = MiB => k % 2 = 0

\* 2.5 MiB was rendered "2 MB"
C4_witness ==
  /\ derived
  /\ rel.assets.list[1].size = PyInt(2621440)
  /\ size_str = <<"2", " ", "M", "B">>

(***************************************************************************)
(* Properties of main (checked under Spec).                                *)
(***************************************************************************)
HttpErrors == {"ConnectionError", "Timeout", "HTTPError"}

\* the request succeeded and main has what it answered
fetched == Len(requests) = 1 /\ stderr \notin HttpErrors

no_assets == fetched /\ (rel.assets.k # "list" \/ rel.assets.list = << >>)

has_assets == fetched /\ rel.assets.k = "list" /\ rel.assets.list # << >>

\* every field main reads is there and of the type main expects
WellFormed(r) ==
  LET a == r.assets.list[1]
  IN /\ r.tag_name.k = "str"
     /\ a.name.k = "str"
     /\ a.size.k = "int"
     /\ a.browser_download_url.k = "str"
     /\ r.published_at.k = "iso"

\* the fields main cannot do without are usable: no null tag or asset name,
\* no text for a size, and a timestamp that parses
Usable(r) ==
  LET a == r.assets.list[1]
  IN /\ r.tag_name.k # "none"
     /\ a.name.k # "none"
     /\ a.size.k # "str"
     /\ \/ r.published_at.k = "iso"
        \/ r.published_at.k \in {"absent", "none", "empty"} /\ r.created_at.k = "iso"

ExpectedPath(t) ==
  <<"_", "i", "n", "s", "t", "a", "l", "l", "e", "r", "s", "/">>
    \o version_from_tag(t) \o <<"_">> \o os_slug_from_tag(t) \o <<".", "m", "d">>

file_written == pc = "written" \/ exit_code = 0

\* C5: for a well-formed release with at least one asset main writes exactly
\* one file, DEST_DIR/<version_from_tag(tag)>_<os_slug_from_tag(tag)>.md, a
\* name the tag alone determines, and its download-link is the first asset's
\* browser_download_url unchanged.  (A card of an earlier run at another
\* path stays as it was.)
C5_filename_and_link ==
  file_written /\ WellFormed(rel) =>
    LET t == rel.tag_name.s
    IN /\ writes = 1
       /\ path = ExpectedPath(t)
       /\ path \in DOMAIN files
       /\ files[path].download_link = rel.assets.list[1].browser_download_url.s
       /\ \A p \in DOMAIN files : p # path => p = OldPath /\ files[p] = OldMd
       /\ t = DocTag_ubuntu24 =>
            path = <<"_", "i", "n", "s", "t", "a", "l", "l", "e", "r", "s", "/",
                     "1", ".", "3", ".", "0", "_",
                     "u", "b", "u", "n", "t", "u", "_", "2", "4", ".", "m", "d">>
       /\ t = DocTag_windows =>
            path = <<"_", "i", "n", "s", "t", "a", "l", "l", "e", "r", "s", "/",
                     "1", ".", "3", ".", "0", "_",
                     "w", "i", "n", "d", "o", "w", "s", ".", "m", "d">>

\* a release with two assets: the card links the first one
C5_witness ==
  /\ exit_code = 0
  /\ WellFormed(rel)
  /\ Len(rel.assets.list) = 2
  /\ rel.assets.list[1].browser_download_url # rel.assets.list[2].browser_download_url
  /\ files[path].download_link = rel.assets.list[1].browser_download_url.s
  /\ rel.tag_name.s = DocTag_windows

\* C6: with an empty, null or absent assets list main ends with a non-zero
\* status and the message about missing assets, without creating a directory
\* or writing a file; every other run whose request succeeded with usable
\* fields prints the generated path and exits zero.
C6_no_assets_exit ==
  /\ no_assets =>
       /\ pc \in {"fetched", "exited"}
       /\ pc = "exited" => exit_code # 0 /\ stderr = S_noassets
       /\ mkdirs = 0 /\ writes = 0 /\ <<dirs, files>> \in Disks
  /\ stderr = S_noassets => no_assets
  /\ has_assets /\ Usable(rel) =>
       /\ stderr = ""
       /\ pc = "exited" =>
            /\ exit_code = 0
            /\ stdout = << <<"G", "e", "n", "e", "r", "a", "t", "e", "d", ":", " ">> \o path >>
            /\ path \in DOMAIN files

\* a release whose assets are null ended the run, nothing made
C6_witness ==
  /\ pc = "exited"
  /\ no_assets
  /\ rel.assets.k = "none"
  /\ exit_code = 1
  /\ dirs = {} /\ files = NoFiles

\* C7: the output file is written at most once, and only after the single
\* request succeeded and every field was derived; a failed request ends the
\* process with the error, without a second request and without creating or
\* changing a file.
C7_write_once_after_derive ==
  /\ writes <= 1 /\ Len(requests) <= 1 /\ mkdirs <= 1
  /\ writes = 0 => <<dirs, files>> \in Disks
  /\ writes = 1 =>
       /\ has_assets /\ Usable(rel) /\ stderr = ""
       /\ tag.k = "str" /\ aname.k = "str"
       /\ version_for_filename = version_from_tag(tag.s)
       /\ os_slug = os_slug_from_tag(tag.s)
       /\ os_key = infer_os_for_frontmatter(tag.s, aname.s)
       /\ date_str = fmt_date(main_date_arg(rel).t)
       /\ size_str = size_mb(first_size)
       /\ url = main_url(rel)
       /\ files[path] = md
       /\ md.version = version_for_filename /\ md.size = size_str /\ md.date = date_str
       /\ md.download_link = format(url) /\ md.key = os_key
  /\ stderr \in HttpErrors =>
       /\ pc = "exited" /\ exit_code = 1
       /\ Len(requests) = 1
       /\ rel = NoRelease
       /\ mkdirs = 0 /\ writes = 0 /\ <<dirs, files>> \in Disks
       /\ ~ENABLED Next

\* the request failed with an error status: the run is over and the card of
\* an earlier run is as it was
C7_witness ==
  /\ stderr = "HTTPError"
  /\ pc = "exited"
  /\ Len(requests) = 1
  /\ writes = 0
  /\ files = OldFiles

\* C8 as stated: apart from an HTTP failure and an empty asset list no missing
\* or malformed field makes the run fail: the card is written all the same
C8_no_field_fails ==
  has_assets /\ pc = "exited" => exit_code = 0 /\ writes = 1

====
